---- MODULE Spec2Model ----
(***************************************************************************)
(* The connection-handling core of the song server (src/src/main.rs):      *)
(* main's accept loop, one handle_client thread per connection, the two    *)
(* Mutex-guarded shared values (visit_count, db_connection) and the songs  *)
(* table behind db_connection.                                             *)
(***************************************************************************)
EXTENDS Integers, Sequences, FiniteSets, TLC

(* ------------------------------ bounds -------------------------------- *)
\* Connections accepted over one run of the server.
NWorkers == 3

\* Threads that exist at the same time.
MaxLive == 2

(* ------------------------- program constants -------------------------- *)
\* let mut buffer = [0; 1024]; the whole buffer becomes the request text.
BufLen == 1024

\* Length of the "\r\n\r\n" separator skipped by &request[headers_end + 4..].
SepLen == 4

\* Option::None of an Option<usize> or Option<u32>.
None == -1

Workers == 1..NWorkers

(* ------------------------------ strings ------------------------------- *)
(* A string is a sequence of characters.  The characters that matter to    *)
(* the code are told apart: ASCII letters in both cases, a non-ASCII       *)
(* letter in both cases, the separators of the query string ("&", "="," "), *)
(* the two wildcards of LIKE.  "U+00C9" and "U+00E9" are the one-character  *)
(* strings of the capital and the small e with acute accent; a key of the  *)
(* query string ("title", "TITLE", "foo") is a single token.               *)

\* str::to_lowercase of one character (Unicode lower-casing).
LowerChar(c) ==
    CASE c = "A" -> "a"
      [] c = "B" -> "b"
      [] c = "U+00C9" -> "U+00E9"
      [] c = "TITLE" -> "title"
      [] c = "Genre" -> "genre"
      [] OTHER -> c

\* str::to_lowercase.
ToLower(s) == [i \in 1..Len(s) |-> LowerChar(s[i])]

\* str::replace("+", " ").
ReplacePlus(s) == [i \in 1..Len(s) |-> IF s[i] = "+" THEN " " ELSE s[i]]

\* Case folding of SQLite's built-in LIKE: ASCII letters only.
AsciiFold(c) ==
    CASE c = "A" -> "a"
      [] c = "B" -> "b"
      [] OTHER -> c

\* SQLite's  text LIKE pattern : % matches any run of characters, _ any one
\* character, every other character matches itself up to ASCII case.
RECURSIVE Like(_, _)
Like(pattern, text) ==
    IF pattern = <<>> THEN text = <<>>
    ELSE IF Head(pattern) = "%"
         THEN Like(Tail(pattern), text)
              \/ (text # <<>> /\ Like(pattern, Tail(text)))
    ELSE IF text = <<>> THEN FALSE
    ELSE IF Head(pattern) = "_" THEN Like(Tail(pattern), Tail(text))
    ELSE AsciiFold(Head(pattern)) = AsciiFold(Head(text))
         /\ Like(Tail(pattern), Tail(text))

\* format!("%{}%", value)
Wrap(value) == <<"%">> \o value \o <<"%">>

\* str::split(sep) on a one-character separator: the pieces, in order.
RECURSIVE SplitOn(_, _)
SplitOn(s, sep) ==
    IF \A i \in 1..Len(s) : s[i] # sep THEN <<s>>
    ELSE LET k == CHOOSE i \in 1..Len(s) :
                      s[i] = sep /\ \A j \in 1..(i - 1) : s[j] # sep
         IN  <<SubSeq(s, 1, k - 1)>> \o SplitOn(SubSeq(s, k + 1, Len(s)), sep)

(* ------------------------------ requests ------------------------------ *)
(* What one read leaves in the buffer, as far as handle_client looks at    *)
(* it:                                                                     *)
(*   err     the read returns Err and leaves nothing                       *)
(*   find    index of the first "\r\n\r\n" in the request text, or None    *)
(*   method, path   the start of the request line; for the two prefix      *)
(*           routes path is the prefix and the rest of the line follows    *)
(*           in tail (search) or id (play)                                 *)
(*   tail    the text after "GET /songs/search?"                           *)
(*   id      the text between "/songs/play/" and the next whitespace:      *)
(*           kind "digits" (val in decimal, val <= u32::MAX), "plus" ("+"  *)
(*           and val), "bigdigits" (decimal digits of a number above       *)
(*           u32::MAX, such as 4294967296), "alpha" (letters) or "empty"   *)
(*   ctype   the value of the Content-Type header, "" when there is none   *)
(*   clen    the first line starting "Content-Length:": form "none" (no    *)
(*           such line), "ok" ("Content-Length: " and val in decimal),     *)
(*           "nospace" ("Content-Length:" and val, no blank after the      *)
(*           colon), "alpha" ("Content-Length: " and letters)              *)
(*   body    the JSON text sent after the blank line: doc "song" (an       *)
(*           object with the three string fields, the value in song),      *)
(*           "partial" (an object without genre) or "garbage"; len is its  *)
(*           length in bytes.  The rest of the buffer is NUL bytes.        *)

NoId == [kind |-> "empty", val |-> 0]

NoLen == [form |-> "none", val |-> 0]

NoNewSong == [title |-> <<>>, artist |-> <<>>, genre |-> <<>>]

NoBody == [doc |-> "garbage", song |-> NoNewSong, len |-> 0]

\* "GET / HTTP/1.1\r\nHost: x\r\n\r\n" and nothing else.
BaseReq ==
    [err |-> FALSE, find |-> 25, method |-> "GET", path |-> "/", tail |-> <<>>, id |-> NoId,
     ctype |-> "", clen |-> NoLen, body |-> NoBody]

\* The NewSong document clients submit.
SongInput == [title |-> <<"A", "b">>, artist |-> <<"U+00C9">>, genre |-> <<"r">>]

\* Bytes of the JSON text {"title":"..","artist":"..","genre":".."} of the
\* document: 35 bytes around the fields, and two bytes for the non-ASCII
\* letter of the artist.
DocLen(song) == 35 + Len(song.title) + (Len(song.artist) + 1) + Len(song.genre)

SongBody == [doc |-> "song", song |-> SongInput, len |-> DocLen(SongInput)]

\* POST /songs/new with 60 bytes of headers in front of the blank line.
PostReq(ctype, clen, body) ==
    [BaseReq EXCEPT !.find = 60, !.method = "POST", !.path = "/songs/new",
                    !.ctype = ctype, !.clen = clen, !.body = body]

LenOk(n) == [form |-> "ok", val |-> n]

PostRequests ==
    { PostReq("application/json", LenOk(SongBody.len), SongBody),
      PostReq("text/plain", LenOk(SongBody.len), SongBody),
      PostReq("application/json", NoLen, SongBody),
      PostReq("application/json", LenOk(SongBody.len - 1), SongBody),
      PostReq("application/json", LenOk(2000), SongBody) }

SearchReq(tail) ==
    [BaseReq EXCEPT !.path = "/songs/search?", !.tail = tail]

\* The request-line tails of the search requests, up to and past the blank
\* in front of "HTTP/1.1".
SearchTails ==
    { <<" ", "H">>,
      <<"foo", "=", "A", " ", "H">>,
      <<"title", "=", "A", " ", "H">>,
      <<"artist", "=", "U+00C9", " ", "H">>,
      <<"genre", "=", "z", " ", "H">>,
      <<"title", "=", "z", "&", "title", "=", "A", " ", "H">>,
      <<"title", "=", "A", "&", "foo", "=", "z", "&", "title", "=", "z", " ", "H">> }

PlayReq(id) == [BaseReq EXCEPT !.path = "/songs/play/", !.id = id]

PlayIds ==
    { [kind |-> "digits", val |-> 1],
      [kind |-> "digits", val |-> 2],
      [kind |-> "bigdigits", val |-> 0],
      [kind |-> "alpha", val |-> 0] }

OtherRequests ==
    { [BaseReq EXCEPT !.path = "/count"],
      BaseReq,
      [BaseReq EXCEPT !.method = "DELETE", !.path = "/songs/new"],
      [BaseReq EXCEPT !.find = None],
      [BaseReq EXCEPT !.err = TRUE] }

\* The requests the clients of the model send.
Requests ==
    OtherRequests \cup PostRequests
    \cup { SearchReq(t) : t \in SearchTails } \cup { PlayReq(i) : i \in PlayIds }

(* --------------------- handle_client: pure parts ---------------------- *)

\* request.find("\r\n\r\n").unwrap_or(request.len())
HeadersEnd(r) == IF r.find = None THEN BufLen ELSE r.find

\* &request[headers_end + 4..] panics when the start is past the end.
SplitPanics(r) == HeadersEnd(r) + SepLen > BufLen

\* body.len(): what follows the blank line in the buffer, NUL bytes included.
BodyAvail(r) == BufLen - (HeadersEnd(r) + SepLen)

\* headers.contains("Content-Type: application/json")
IsJson(r) == r.ctype = "application/json"

\* A dispatch on the path alone, whatever the method.
RouteByPath(r) ==
    IF r.path = "/count" THEN "count"
    ELSE IF r.path = "/songs/new" THEN "new"
    ELSE IF r.path = "/songs/search?" THEN "search"
    ELSE IF r.path = "/songs/play/" THEN "play"
    ELSE "default"

\* The if / else if chain over request.starts_with(...).
Route(r) ==
    IF r.method = "GET" /\ r.path = "/count" THEN "count"
    ELSE IF r.method = "POST" /\ r.path = "/songs/new" THEN "new"
    ELSE IF r.method = "GET" /\ r.path = "/songs/search?" THEN "search"
    ELSE IF r.method = "GET" /\ r.path = "/songs/play/" THEN "play"
    ELSE "default"

\* content_length_header: the line's text after ": ", parsed as usize.
ContentLength(r) == IF r.clen.form = "ok" THEN r.clen.val ELSE None

\* &body[..content_length] panics when content_length > body.len().
SlicePanics(r, n) == n > BodyAvail(r)

\* serde_json::from_str::<NewSong>(&body[..n]) is Ok: the slice is the whole
\* document and nothing else (a shorter slice ends inside the document, a
\* longer one takes in NUL bytes after it).
DecodesNewSong(r, n) == r.body.doc = "song" /\ n = r.body.len

\* The text between "GET /songs/search?" and the first blank.
QueryOf(r) == Head(SplitOn(r.tail, " "))

\* A pair's (key, value), or <<>> for a pair without "=".
PairOf(pair) ==
    LET parts == SplitOn(pair, "=")
    IN  IF Len(parts) < 2 THEN <<>>
        ELSE << [key |-> ToLower(parts[1]),
                 value |-> ToLower(ReplacePlus(parts[2]))] >>

RECURSIVE FlatMapPairs(_)
FlatMapPairs(pairs) ==
    IF pairs = <<>> THEN <<>>
    ELSE PairOf(Head(pairs)) \o FlatMapPairs(Tail(pairs))

\* params: Vec<(String, String)>
ParamsOf(query) == FlatMapPairs(SplitOn(query, "&"))

Columns == {"title", "artist", "genre"}

Recognized(param) == Len(param.key) = 1 /\ param.key[1] \in Columns

\* A loop in which a later pair of a key replaces the earlier ones.
RECURSIVE FiltersLastWins(_)
FiltersLastWins(params) ==
    IF params = <<>> THEN <<>>
    ELSE LET first == Head(params)
             kept == Recognized(first)
                     /\ \A j \in 2..Len(params) : params[j].key # first.key
         IN  (IF kept THEN <<first>> ELSE <<>>) \o FiltersLastWins(Tail(params))

\* The for loop over params: one condition and one argument per recognized
\* key, in the order of the pairs.
Filters(params) == SelectSeq(params, Recognized)

\* conditions: the " AND <column> LIKE ?" fragments, by their columns.
Conditions(params) ==
    LET f == Filters(params) IN [i \in 1..Len(f) |-> f[i].key[1]]

\* arguments: format!("%{}%", value) of each recognized pair.
Arguments(params) ==
    LET f == Filters(params) IN [i \in 1..Len(f) |-> Wrap(f[i].value)]

\* conditions.push_str(" AND <column> LIKE ?")
ConditionText(column) == <<" AND ", column, " LIKE ?">>

RECURSIVE JoinConditions(_)
JoinConditions(columns) ==
    IF columns = <<>> THEN <<>>
    ELSE ConditionText(Head(columns)) \o JoinConditions(Tail(columns))

\* A query text with each value written into it between quotes.
RECURSIVE InterpolatedQuery(_)
InterpolatedQuery(params) ==
    IF Filters(params) = <<>>
    THEN <<"SELECT id, title, artist, genre, play_count FROM songs WHERE 1=1">>
    ELSE LET f == Filters(params)
             last == f[Len(f)]
         IN  InterpolatedQuery(SubSeq(f, 1, Len(f) - 1))
             \o <<" AND ", last.key[1], " LIKE '">> \o Wrap(last.value) \o <<"'">>

\* final_query: the SELECT, "WHERE 1=1" and the conditions.
FinalQuery(params) ==
    <<"SELECT id, title, artist, genre, play_count FROM songs WHERE 1=1">>
    \o JoinConditions(Conditions(params))

\* The conditions joined by OR instead of AND.
RowMatchesAny(row, conds, args) ==
    \E i \in 1..Len(conds) : Like(args[i], row[conds[i]])

\* A row satisfies  WHERE 1=1 AND c1 LIKE ?1 AND c2 LIKE ?2 ...
RowMatches(row, conds, args) ==
    \A i \in 1..Len(conds) : Like(args[i], row[conds[i]])

\* A parse that reads a text without digits as 0, as C's atoi does.
ParseLenient(id) ==
    IF id.kind \in {"digits", "plus"} THEN id.val
    ELSE IF id.kind = "alpha" THEN 0 ELSE None

\* id_str.parse::<u32>(): decimal digits, with an optional "+" in front,
\* of a number up to u32::MAX.
ParseU32(id) == IF id.kind \in {"digits", "plus"} THEN id.val ELSE None

(* ----------------------------- responses ------------------------------ *)
(* A response is its status line and its body: a fixed text, the text     *)
(* "Visit count: " and a number, or the JSON of a Song or of a Vec<Song>. *)

NoSong == [id |-> 0, title |-> <<>>, artist |-> <<>>, genre |-> <<>>, play_count |-> 0]

Response(status, text, n, list) ==
    [status |-> status, text |-> text, n |-> n, songs |-> list]

NoResponse == Response(0, "", 0, <<>>)

\* A response that reports the counter as it was before the increment.
CountResponseBefore(n) == Response(200, "Visit count: ", n - 1, <<>>)

\* format!("...Visit count: {}", count)
CountResponse(n) == Response(200, "Visit count: ", n, <<>>)

SongResponse(song) == Response(200, "json Song", 0, <<song>>)

SongsResponse(list) == Response(200, "json Vec<Song>", 0, list)

InvalidJsonResponse == Response(400, "Invalid JSON format.", 0, <<>>)

LengthRequiredResponse == Response(411, "Missing Content-Length header.", 0, <<>>)

UnsupportedMediaResponse ==
    Response(415, "Expected Content-Type: application/json.", 0, <<>>)

NotFoundResponse == Response(404, "{\"error\":\"Song not found\"}", 0, <<>>)

InvalidIdResponse == Response(400, "Invalid song ID.", 0, <<>>)

WelcomeResponse ==
    Response(200, "Welcome to the Rust-powered web server!", 0, <<>>)

\* "HTTP/1.1 500 Internal Server Error\r\n\r\n"
InsertFailedResponse == Response(500, "", 0, <<>>)

\* The same status line with a Content-Type: text/plain header, no body.
QueryFailedResponse == Response(500, "text/plain", 0, <<>>)

(* ------------------------------- state -------------------------------- *)
VARIABLES
    accepted,           \* connections main's accept loop has handed to a thread
    pc,                 \* pc[w]: where thread w is in handle_client
    req,                \* req[w]: the bytes connection w delivers to the read
    loc,                \* loc[w]: the thread's locals (count, song, response)
    resp,               \* resp[w]: the responses written on connection w
    taken,              \* taken[w]: the guards thread w has acquired, in order
    visit_count,        \* the u32 behind Arc<Mutex<u32>>
    visit_lock,         \* the thread holding visit_count's guard, 0 when free
    db_lock,            \* the thread holding db_connection's guard, 0 when free
    poisoned,           \* the mutexes a thread panicked in while holding the guard
    songs,              \* the rows of table songs, in rowid order
    sqlite_sequence,    \* the AUTOINCREMENT counter of table songs
    last_insert_rowid,  \* the connection's last_insert_rowid()
    served_counts,      \* history: GET /count requests answered so far
    served_plays,       \* history: served_plays[id], the 200 answers to plays of id
    row_of,             \* history: row_of[w], the rowid thread w's INSERT made
    count_reports,      \* history: the numbers written in GET /count responses
    store_log           \* history: the creates and plays, as they got the guard

vars ==
    <<accepted, pc, req, loc, resp, taken, visit_count, visit_lock, db_lock,
      poisoned, songs, sqlite_sequence, last_insert_rowid, served_counts,
      served_plays, row_of, count_reports, store_log>>

shared == <<visit_count, songs, sqlite_sequence, last_insert_rowid>>

locks == <<visit_lock, db_lock, poisoned>>

history == <<served_counts, served_plays, row_of, count_reports, store_log>>

\* fault: the store call of this thread that returned Err, "" for none.
NoLocals ==
    [n |-> 0, song |-> NoSong, out |-> NoResponse, query |-> <<>>, args |-> <<>>,
     fault |-> ""]

\* The ways handle_client ends: by return or by a panic that unwinds it.
Ended == {"returned", "panicked"}

\* Threads that exist: spawned and not yet gone.
Live == {w \in Workers : pc[w] \notin {"idle", "closed"}}

\* main up to the accept loop: a reset table, a zero counter, free guards.
Init ==
    /\ accepted = 0
    /\ pc = [w \in Workers |-> "idle"]
    /\ req = [w \in Workers |-> BaseReq]
    /\ loc = [w \in Workers |-> NoLocals]
    /\ resp = [w \in Workers |-> <<>>]
    /\ taken = [w \in Workers |-> <<>>]
    /\ visit_count = 0
    /\ visit_lock = 0
    /\ db_lock = 0
    /\ poisoned = {}
    /\ songs = <<>>
    /\ sqlite_sequence = 0
    /\ last_insert_rowid = 0
    /\ served_counts = 0
    /\ served_plays = [id \in 1..(NWorkers + 1) |-> 0]
    /\ row_of = [w \in Workers |-> 0]
    /\ count_reports = <<>>
    /\ store_log = <<>>

(* ------------------------------ the guards ---------------------------- *)

\* lock() returned Err(PoisonError): a thread panicked with the guard held.
Poisoned(mutex) == mutex \in poisoned

\* A lock that lets every caller in.
CanLockAlways(holder) == TRUE

\* Mutex::lock returns once no thread holds the guard.
CanLock(holder) == holder = 0

\* A guard that is never released (leaked instead of dropped).
GuardLeaked(w, holder) == holder

\* The guard is dropped at the end of its block: the mutex is free again.
Unlocked(w, holder) == IF holder = w THEN 0 ELSE holder

\* The step of thread w goes from pc value "from" to "to".
Goto(w, from, to) == pc[w] = from /\ pc' = [pc EXCEPT ![w] = to]

\* The thread has read its request and split it into headers and body.
Parsed(w) == pc[w] = "accepted" /\ ~req[w].err /\ ~SplitPanics(req[w])

\* write_all of a response, after which handle_client returns and drops
\* the guard it holds.
Written(w, response) ==
    /\ resp' = [resp EXCEPT ![w] = Append(@, response)]
    /\ visit_lock' = Unlocked(w, visit_lock)
    /\ db_lock' = Unlocked(w, db_lock)
    /\ UNCHANGED poisoned

(* ------------------------------ the table ----------------------------- *)

\* INSERT INTO songs (title, artist, genre, play_count) VALUES (?1, ?2, ?3, 0)
\* under INTEGER PRIMARY KEY AUTOINCREMENT: the next rowid.
InsertedRow(new_song) ==
    [id |-> sqlite_sequence + 1, title |-> new_song.title,
     artist |-> new_song.artist, genre |-> new_song.genre, play_count |-> 0]

\* SELECT id, title, artist, genre, play_count FROM songs WHERE 1=1 AND ...
SelectWhere(conds, args) ==
    SelectSeq(songs, LAMBDA row : RowMatches(row, conds, args))

\* SELECT ... FROM songs WHERE id = ?1
SelectById(id) == SelectSeq(songs, LAMBDA row : row.id = id)

\* The UPDATE without its WHERE clause: every row gets the play_count.
UpdatedEveryRow(play_count, id) ==
    [i \in 1..Len(songs) |-> [songs[i] EXCEPT !.play_count = play_count]]

\* UPDATE songs SET play_count = ?1 WHERE id = ?2
UpdatedPlayCount(play_count, id) ==
    [i \in 1..Len(songs) |->
        IF songs[i].id = id THEN [songs[i] EXCEPT !.play_count = play_count]
        ELSE songs[i]]

(* ------------------------------- actions ------------------------------ *)

\* listener.incoming() yields a connection and main spawns its thread.
Accept(w, r) ==
    /\ w = accepted + 1
    /\ Cardinality(Live) < MaxLive
    /\ Goto(w, "idle", "accepted")
    /\ accepted' = w
    /\ req' = [req EXCEPT ![w] = r]
    /\ UNCHANGED <<loc, resp, taken, shared, locks, history>>

\* stream.read fails: the error is logged and the thread returns.
ReadFail(w) ==
    /\ req[w].err
    /\ Goto(w, "accepted", "returned")
    /\ UNCHANGED <<accepted, req, loc, resp, taken, shared, locks, history>>

\* No blank line in the buffer: the body slice starts past the end of the
\* request text and the thread panics.
SplitPanic(w) ==
    /\ ~req[w].err
    /\ SplitPanics(req[w])
    /\ Goto(w, "accepted", "panicked")
    /\ UNCHANGED <<accepted, req, loc, resp, taken, shared, locks, history>>

\* GET /count: visit_count.lock() and the load of *count += 1.
CountLock(w) ==
    /\ Parsed(w) /\ Route(req[w]) = "count"
    /\ CanLock(visit_lock) /\ ~Poisoned("visit_count")
    /\ Goto(w, "accepted", "count_locked")
    /\ visit_lock' = w
    /\ taken' = [taken EXCEPT ![w] = Append(@, "visit_count")]
    /\ loc' = [loc EXCEPT ![w].n = visit_count]
    /\ UNCHANGED <<accepted, req, resp, shared, db_lock, poisoned, history>>

\* The store of *count += 1 and the format! of the response.  (The u32
\* cannot overflow here: it counts at most NWorkers requests.)
CountStore(w) ==
    /\ Goto(w, "count_locked", "write")
    /\ visit_count' = loc[w].n + 1
    /\ loc' = [loc EXCEPT ![w].n = visit_count',
                          ![w].out = CountResponse(visit_count')]
    /\ UNCHANGED <<accepted, req, resp, taken, songs, sqlite_sequence,
                   last_insert_rowid, locks, history>>

\* POST /songs/new without the JSON content type: 415.
NewUnsupported(w) ==
    /\ Parsed(w) /\ Route(req[w]) = "new"
    /\ ~IsJson(req[w])
    /\ Goto(w, "accepted", "returned")
    /\ Written(w, UnsupportedMediaResponse)
    /\ UNCHANGED <<accepted, req, loc, taken, shared, history>>

\* ... with it and without a Content-Length that parses: 411.
NewLengthRequired(w) ==
    /\ Parsed(w) /\ Route(req[w]) = "new"
    /\ IsJson(req[w])
    /\ ContentLength(req[w]) = None
    /\ Goto(w, "accepted", "returned")
    /\ Written(w, LengthRequiredResponse)
    /\ UNCHANGED <<accepted, req, loc, taken, shared, history>>

\* ... with a Content-Length past the end of the buffer: the slice panics.
NewSlicePanic(w) ==
    /\ Parsed(w) /\ Route(req[w]) = "new"
    /\ IsJson(req[w])
    /\ ContentLength(req[w]) # None
    /\ SlicePanics(req[w], ContentLength(req[w]))
    /\ Goto(w, "accepted", "panicked")
    /\ UNCHANGED <<accepted, req, loc, resp, taken, shared, locks, history>>

\* ... with a body slice that is no NewSong: 400.
NewInvalidJson(w) ==
    /\ Parsed(w) /\ Route(req[w]) = "new"
    /\ IsJson(req[w])
    /\ ContentLength(req[w]) # None
    /\ ~SlicePanics(req[w], ContentLength(req[w]))
    /\ ~DecodesNewSong(req[w], ContentLength(req[w]))
    /\ Goto(w, "accepted", "returned")
    /\ Written(w, InvalidJsonResponse)
    /\ UNCHANGED <<accepted, req, loc, taken, shared, history>>

\* ... with a NewSong: db_connection.lock() and the INSERT.
NewInsert(w) ==
    /\ Parsed(w) /\ Route(req[w]) = "new"
    /\ IsJson(req[w])
    /\ ContentLength(req[w]) # None
    /\ ~SlicePanics(req[w], ContentLength(req[w]))
    /\ DecodesNewSong(req[w], ContentLength(req[w]))
    /\ CanLock(db_lock) /\ ~Poisoned("db_connection")
    /\ Goto(w, "accepted", "inserted")
    /\ db_lock' = w
    /\ taken' = [taken EXCEPT ![w] = Append(@, "db_connection")]
    /\ songs' = Append(songs, InsertedRow(req[w].body.song))
    /\ sqlite_sequence' = sqlite_sequence + 1
    /\ last_insert_rowid' = sqlite_sequence + 1
    /\ row_of' = [row_of EXCEPT ![w] = sqlite_sequence + 1]
    /\ store_log' = Append(store_log, [op |-> "new", id |-> sqlite_sequence + 1])
    /\ UNCHANGED <<accepted, req, loc, resp, visit_count, visit_lock, poisoned,
                   served_counts, served_plays, count_reports>>

\* last_insert_rowid() as u32, the Song and the format! of the response.
NewSongBuilt(w) ==
    /\ Goto(w, "inserted", "write")
    /\ LET new_song == req[w].body.song
           song == [id |-> last_insert_rowid, title |-> new_song.title,
                    artist |-> new_song.artist, genre |-> new_song.genre,
                    play_count |-> 0]
       IN  loc' = [loc EXCEPT ![w].song = song, ![w].out = SongResponse(song)]
    /\ UNCHANGED <<accepted, req, resp, taken, shared, locks, history>>

\* GET /songs/search?: the query built from the request line,
\* db_connection.lock(), prepare, query_map and the format! of the rows.
SearchQuery(w) ==
    /\ Parsed(w) /\ Route(req[w]) = "search"
    /\ CanLock(db_lock) /\ ~Poisoned("db_connection")
    /\ Goto(w, "accepted", "write")
    /\ db_lock' = w
    /\ taken' = [taken EXCEPT ![w] = Append(@, "db_connection")]
    /\ LET params == ParamsOf(QueryOf(req[w]))
           rows == SelectWhere(Conditions(params), Arguments(params))
       IN  loc' = [loc EXCEPT ![w].query = FinalQuery(params),
                             ![w].args = Arguments(params),
                             ![w].out = SongsResponse(rows)]
    /\ UNCHANGED <<accepted, req, resp, shared, visit_lock, poisoned, history>>

\* GET /songs/play/ with an id that is no u32: 400.
PlayInvalidId(w) ==
    /\ Parsed(w) /\ Route(req[w]) = "play"
    /\ ParseU32(req[w].id) = None
    /\ Goto(w, "accepted", "returned")
    /\ Written(w, InvalidIdResponse)
    /\ UNCHANGED <<accepted, req, loc, taken, shared, history>>

\* ... with a u32: db_connection.lock(), prepare and query_row.  A row goes
\* to song; no row (any Err) gives the 404 to write.
PlaySelect(w) ==
    /\ Parsed(w) /\ Route(req[w]) = "play"
    /\ ParseU32(req[w].id) # None
    /\ CanLock(db_lock) /\ ~Poisoned("db_connection")
    /\ db_lock' = w
    /\ taken' = [taken EXCEPT ![w] = Append(@, "db_connection")]
    /\ LET found == SelectById(ParseU32(req[w].id))
       IN  IF found # <<>>
           THEN /\ Goto(w, "accepted", "selected")
                /\ loc' = [loc EXCEPT ![w].song = found[1]]
                /\ store_log' = Append(store_log, [op |-> "play", id |-> found[1].id])
           ELSE /\ Goto(w, "accepted", "write")
                /\ loc' = [loc EXCEPT ![w].out = NotFoundResponse]
                /\ UNCHANGED store_log
    /\ UNCHANGED <<accepted, req, resp, shared, visit_lock, poisoned,
                   served_counts, served_plays, row_of, count_reports>>

\* song.play_count += 1, the UPDATE and the format! of the response.
PlayUpdate(w) ==
    /\ Goto(w, "selected", "write")
    /\ LET song == [loc[w].song EXCEPT !.play_count = @ + 1]
       IN  /\ songs' = UpdatedPlayCount(song.play_count, song.id)
           /\ loc' = [loc EXCEPT ![w].song = song, ![w].out = SongResponse(song)]
    /\ UNCHANGED <<accepted, req, resp, taken, visit_count, sqlite_sequence,
                   last_insert_rowid, locks, history>>

\* The response of a handler that holds a guard is written; the thread
\* returns and the guard is dropped.
WriteResponse(w) ==
    /\ Goto(w, "write", "returned")
    /\ Written(w, loc[w].out)
    /\ served_counts' =
          IF Route(req[w]) = "count" THEN served_counts + 1 ELSE served_counts
    /\ served_plays' =
          IF Route(req[w]) = "play" /\ loc[w].out.status = 200
          THEN [served_plays EXCEPT ![loc[w].song.id] = @ + 1]
          ELSE served_plays
    /\ count_reports' =
          IF Route(req[w]) = "count" THEN Append(count_reports, loc[w].out.n)
          ELSE count_reports
    /\ UNCHANGED <<accepted, req, loc, taken, shared, row_of, store_log>>

\* Every request that matches no route prefix: the welcome text.
Default(w) ==
    /\ Parsed(w) /\ Route(req[w]) = "default"
    /\ Goto(w, "accepted", "returned")
    /\ Written(w, WelcomeResponse)
    /\ UNCHANGED <<accepted, req, loc, taken, shared, history>>

\* The thread is gone: its stack and its connection are dropped.
Close(w) ==
    /\ pc[w] \in Ended
    /\ pc' = [pc EXCEPT ![w] = "closed"]
    /\ req' = [req EXCEPT ![w] = BaseReq]
    /\ loc' = [loc EXCEPT ![w] = NoLocals]
    /\ resp' = [resp EXCEPT ![w] = <<>>]
    /\ taken' = [taken EXCEPT ![w] = <<>>]
    /\ row_of' = [row_of EXCEPT ![w] = 0]
    /\ UNCHANGED <<accepted, shared, locks, served_counts, served_plays,
                   count_reports, store_log>>

Next ==
    \/ \E w \in Workers, r \in Requests : Accept(w, r)
    \/ \E w \in Workers :
          \/ ReadFail(w)
          \/ SplitPanic(w)
          \/ CountLock(w)
          \/ CountStore(w)
          \/ NewUnsupported(w)
          \/ NewLengthRequired(w)
          \/ NewSlicePanic(w)
          \/ NewInvalidJson(w)
          \/ NewInsert(w)
          \/ NewSongBuilt(w)
          \/ SearchQuery(w)
          \/ PlayInvalidId(w)
          \/ PlaySelect(w)
          \/ PlayUpdate(w)
          \/ WriteResponse(w)
          \/ Default(w)
          \/ Close(w)

Spec == Init /\ [][Next]_vars

(* --------------------------- store failures --------------------------- *)
(* The same program over a store whose calls can return Err (a locked or   *)
(* damaged database file, a full disk, a table changed from outside).      *)

\* The handler of request r calls db_connection.lock().
NeedsStore(r) ==
    \/ /\ Route(r) = "new" /\ IsJson(r) /\ ContentLength(r) # None
       /\ ~SlicePanics(r, ContentLength(r)) /\ DecodesNewSong(r, ContentLength(r))
    \/ Route(r) = "search"
    \/ Route(r) = "play" /\ ParseU32(r.id) # None

\* Thread w gets the store guard from lock().unwrap().
LocksStore(w) ==
    /\ Parsed(w) /\ NeedsStore(req[w])
    /\ CanLock(db_lock) /\ ~Poisoned("db_connection")
    /\ taken' = [taken EXCEPT ![w] = Append(@, "db_connection")]

\* A panic unwinds thread w while it holds the store guard: the guard is
\* dropped and marks the mutex poisoned.
PanicsInStore(w, call) ==
    /\ pc' = [pc EXCEPT ![w] = "panicked"]
    /\ loc' = [loc EXCEPT ![w].fault = call]
    /\ db_lock' = 0
    /\ poisoned' = poisoned \cup {"db_connection"}

\* lock() on the poisoned mutex returns Err and unwrap() panics.
LockPoisoned(w) ==
    /\ Parsed(w) /\ NeedsStore(req[w])
    /\ CanLock(db_lock) /\ Poisoned("db_connection")
    /\ Goto(w, "accepted", "panicked")
    /\ UNCHANGED <<accepted, req, loc, resp, taken, shared, locks, history>>

\* POST /songs/new: execute of the INSERT returns Err; no row is added and
\* the 500 is written before the return.
NewInsertFails(w) ==
    /\ Route(req[w]) = "new"
    /\ LocksStore(w)
    /\ Goto(w, "accepted", "write")
    /\ db_lock' = w
    /\ loc' = [loc EXCEPT ![w].fault = "insert", ![w].out = InsertFailedResponse]
    /\ UNCHANGED <<accepted, req, resp, shared, visit_lock, poisoned, history>>

\* GET /songs/search?: prepare returns Err and unwrap() panics.
SearchPrepareFails(w) ==
    /\ Route(req[w]) = "search"
    /\ LocksStore(w)
    /\ pc[w] = "accepted"
    /\ PanicsInStore(w, "prepare")
    /\ UNCHANGED <<accepted, req, resp, shared, visit_lock, history>>

\* GET /songs/search?: query_map returns Err; the 500 is written.
SearchQueryFails(w) ==
    /\ Route(req[w]) = "search"
    /\ LocksStore(w)
    /\ Goto(w, "accepted", "write")
    /\ db_lock' = w
    /\ loc' = [loc EXCEPT ![w].query = FinalQuery(ParamsOf(QueryOf(req[w]))),
                          ![w].args = Arguments(ParamsOf(QueryOf(req[w]))),
                          ![w].fault = "query", ![w].out = QueryFailedResponse]
    /\ UNCHANGED <<accepted, req, resp, shared, visit_lock, poisoned, history>>

\* GET /songs/play/: prepare returns Err and unwrap() panics.
PlayPrepareFails(w) ==
    /\ Route(req[w]) = "play"
    /\ LocksStore(w)
    /\ pc[w] = "accepted"
    /\ PanicsInStore(w, "prepare")
    /\ UNCHANGED <<accepted, req, resp, shared, visit_lock, history>>

\* GET /songs/play/: query_row returns an Err other than "no rows"; the
\* Err(_) arm answers 404 all the same.
PlaySelectFails(w) ==
    /\ Route(req[w]) = "play"
    /\ LocksStore(w)
    /\ Goto(w, "accepted", "write")
    /\ db_lock' = w
    /\ loc' = [loc EXCEPT ![w].fault = "select", ![w].out = NotFoundResponse]
    /\ UNCHANGED <<accepted, req, resp, shared, visit_lock, poisoned, history>>

\* GET /songs/play/: execute of the UPDATE returns Err and unwrap() panics.
PlayUpdateFails(w) ==
    /\ pc[w] = "selected"
    /\ PanicsInStore(w, "update")
    /\ UNCHANGED <<accepted, req, resp, taken, shared, visit_lock, history>>

NextFault ==
    \/ Next
    \/ \E w \in Workers :
          \/ LockPoisoned(w)
          \/ NewInsertFails(w)
          \/ SearchPrepareFails(w)
          \/ SearchQueryFails(w)
          \/ PlayPrepareFails(w)
          \/ PlaySelectFails(w)
          \/ PlayUpdateFails(w)

SpecFault == Init /\ [][NextFault]_vars

(* ============================== claims ================================ *)

\* Thread w is inside the GET /count handler.
InCount(w) == pc[w] \in {"count_locked", "write"} /\ Route(req[w]) = "count"

\* Thread w has a GET /count request that it has not yet answered.
CountPending(w) ==
    InCount(w) \/ (Parsed(w) /\ Route(req[w]) = "count")

\* C1: once every GET /count request that reached the server has been
\* answered, the visit counter equals the number of those requests: no
\* increment is lost in any interleaving.
C1_NoLostIncrement ==
    (\A w \in Workers : ~CountPending(w)) => visit_count = served_counts

\* Two count requests were in their threads at the same time and all count
\* requests are answered.
C1_Witness ==
    /\ served_counts = NWorkers
    /\ \A w \in Workers : ~CountPending(w)
    /\ \E w \in Workers : pc[w] = "returned" /\ resp[w] = <<CountResponse(NWorkers)>>

\* Thread w is between the SELECT and the write of a play it will answer 200.
InPlay(w) ==
    \/ pc[w] = "selected"
    \/ pc[w] = "write" /\ Route(req[w]) = "play" /\ loc[w].out.status = 200

\* Thread w is inside a critical section of the store.
InStore(w) ==
    pc[w] \in {"inserted", "selected"}
    \/ (pc[w] = "write" /\ Route(req[w]) \in {"new", "search", "play"})

\* C2: when no play is in progress, every song's stored play_count equals
\* the number of plays of its id answered since it was created (p + M); and
\* while a play is between its read of play_count and its write of
\* play_count + 1 it holds the store guard, no other thread is inside a
\* store operation, and the stored play_count is still the one it read.
C2_PlayCountExact ==
    /\ (\A w \in Workers : ~InPlay(w)) =>
          \A i \in 1..Len(songs) : songs[i].play_count = served_plays[songs[i].id]
    /\ \A w \in Workers : pc[w] = "selected" =>
          /\ db_lock = w
          /\ \A v \in Workers \ {w} : ~InStore(v)
          /\ \A i \in 1..Len(songs) :
                songs[i].id = loc[w].song.id =>
                   songs[i].play_count = loc[w].song.play_count

\* A song was played twice and the second answer reports play_count 2.
C2_Witness ==
    /\ \A w \in Workers : ~InPlay(w)
    /\ \E i \in 1..Len(songs) :
          /\ songs[i].play_count = 2
          /\ \E w \in Workers :
                pc[w] = "returned" /\ resp[w] = <<SongResponse(songs[i])>>

\* The guard thread w is about to ask for, "" when its next step needs none.
Wants(w) ==
    IF ~Parsed(w) THEN ""
    ELSE LET r == req[w] IN
         CASE Route(r) = "count" -> "visit_count"
           [] Route(r) = "search" -> "db_connection"
           [] Route(r) = "play" /\ ParseU32(r.id) # None -> "db_connection"
           [] Route(r) = "new" /\ IsJson(r) /\ ContentLength(r) # None
                /\ ~SlicePanics(r, ContentLength(r))
                /\ DecodesNewSong(r, ContentLength(r)) -> "db_connection"
           [] OTHER -> ""

Holder(guard) == IF guard = "visit_count" THEN visit_lock ELSE db_lock

\* Thread w holds a guard and its next step needs no other.
Running(w) == pc[w] \in {"count_locked", "inserted", "selected", "write"}

\* C3: no thread holds both guards, none holds one while it asks for the
\* other, each thread acquires at most one guard and at most once, and a
\* thread that waits for a guard waits for a thread that holds it and can
\* take its next step (so no state has every unfinished thread waiting).
C3_NoNestingNoDeadlock ==
    \A w \in Workers :
       /\ Len(taken[w]) <= 1
       /\ ~(visit_lock = w /\ db_lock = w)
       /\ Wants(w) # "" => (visit_lock # w /\ db_lock # w)
       /\ (visit_lock = w \/ db_lock = w) => Running(w)
       /\ (Wants(w) # "" /\ Holder(Wants(w)) # 0) => Running(Holder(Wants(w)))

\* One thread waits for the store guard while another holds it, and the
\* counter guard is held by neither.
C3_Witness ==
    \E w, v \in Workers :
       /\ w # v
       /\ Wants(w) = "db_connection"
       /\ db_lock = v
       /\ pc[v] = "write"
       /\ taken[v] = <<"db_connection">>

\* C4: for every connection whose request was read, handle_client returns
\* after writing exactly one response.
C4_ExactlyOneResponse ==
    \A w \in Workers :
       (pc[w] \in Ended /\ ~req[w].err) => (pc[w] = "returned" /\ Len(resp[w]) = 1)

\* Thread w has ended on a request that was read and split and that the
\* dispatcher sent to "route".
EndedOn(w, route) ==
    pc[w] \in Ended /\ ~req[w].err /\ ~SplitPanics(req[w]) /\ Route(req[w]) = route

\* The body cut to the declared length n is a NewSong document.
BodyDecodes(r, n) == n <= BodyAvail(r) /\ r.body.doc = "song" /\ n = r.body.len

\* C5: a POST /songs/new request is rejected with 415 when it does not
\* declare the JSON content type, else with 411 when it has no Content-Length
\* that parses, else with 400 when its body cut to that length is no NewSong;
\* a rejected request has acquired no guard.
C5_ChecksInOrder ==
    \A w \in Workers : EndedOn(w, "new") =>
       LET r == req[w] IN
       /\ ~IsJson(r) => (resp[w] = <<UnsupportedMediaResponse>> /\ taken[w] = <<>>)
       /\ (IsJson(r) /\ r.clen.form # "ok") =>
             (resp[w] = <<LengthRequiredResponse>> /\ taken[w] = <<>>)
       /\ (IsJson(r) /\ r.clen.form = "ok" /\ ~BodyDecodes(r, r.clen.val)) =>
             (resp[w] = <<InvalidJsonResponse>> /\ taken[w] = <<>>)

\* The response thread w has formatted (before the write) or written.
Answer(w) ==
    IF pc[w] = "write" THEN loc[w].out
    ELSE IF pc[w] = "returned" /\ resp[w] # <<>> THEN resp[w][1]
    ELSE NoResponse

\* Thread w answers a create with 200.
Created(w) == Route(req[w]) = "new" /\ Answer(w).status = 200

\* The Song a create of new_song that made row id answers with.
CreatedSong(id, new_song) ==
    [id |-> id, title |-> new_song.title, artist |-> new_song.artist,
     genre |-> new_song.genre, play_count |-> 0]

\* C6 (state): the 200 answer of a create is the Song with the rowid its own
\* INSERT made, the submitted fields and play_count 0, and the table holds
\* exactly one row of that id, with those fields; rowids are positive and
\* pairwise distinct and the first row has rowid 1.
C6_State ==
    /\ \A w \in Workers : Created(w) =>
          /\ row_of[w] >= 1
          /\ Answer(w) = SongResponse(CreatedSong(row_of[w], req[w].body.song))
          /\ Cardinality({i \in 1..Len(songs) : songs[i].id = row_of[w]}) = 1
          /\ \A i \in 1..Len(songs) : songs[i].id = row_of[w] =>
                [songs[i] EXCEPT !.play_count = 0]
                   = CreatedSong(row_of[w], req[w].body.song)
    /\ \A i, j \in 1..Len(songs) :
          songs[i].id >= 1 /\ (i # j => songs[i].id # songs[j].id)
    /\ songs # <<>> => songs[1].id = 1

\* C6 (step): the table grows only by the INSERT of a create, by exactly one
\* row, which has play_count 0 and the submitted fields; no row is removed.
C6_Step ==
    Len(songs') # Len(songs) =>
       \E w \in Workers :
          /\ pc[w] = "accepted" /\ pc'[w] = "inserted"
          /\ \E id \in 1..(NWorkers + 1) :
                songs' = Append(songs, CreatedSong(id, req[w].body.song))

\* C6: a successful POST /songs/new adds exactly one row with play_count 0
\* and the submitted fields and answers with the identity of the row that
\* same request inserted, in every interleaving; identities are positive and
\* pairwise distinct and the first one is 1.
C6_CreateReturnsOwnRow == []C6_State /\ [][C6_Step]_vars

\* Two creates were in their threads together; the second one answered
\* with rowid 2.
C6_Witness ==
    \E w, v \in Workers :
       /\ w # v
       /\ Created(w) /\ Created(v)
       /\ pc[w] = "returned" /\ pc[v] = "returned"
       /\ row_of[w] = 1 /\ row_of[v] = 2
       /\ resp[v] = <<SongResponse(CreatedSong(2, SongInput))>>

\* text contains v as a substring.
Contains(text, v) ==
    \E i \in 0..(Len(text) - Len(v)) : SubSeq(text, i + 1, i + Len(v)) = v

\* The key=value pairs of a query string whose key, in lower case, names a
\* column, each with its value as the client wrote it ("+" for a blank).
RECURSIVE ClientFilters(_)
ClientFilters(pairs) ==
    IF pairs = <<>> THEN <<>>
    ELSE LET parts == SplitOn(Head(pairs), "=")
             here == IF Len(parts) >= 2 /\ ToLower(parts[1]) \in {<<c>> : c \in Columns}
                     THEN << [column |-> ToLower(parts[1])[1],
                              value |-> ReplacePlus(parts[2])] >>
                     ELSE <<>>
         IN  here \o ClientFilters(Tail(pairs))

FiltersOf(r) == ClientFilters(SplitOn(QueryOf(r), "&"))

\* Thread w holds the store guard with the answer of a search in hand: the
\* table is as its query saw it.
Searched(w) == pc[w] = "write" /\ Route(req[w]) = "search"

\* C7: a search with a single recognized filter answers with every song
\* that has not been played and whose field of that key contains the filter
\* value (in particular the song just created, by a substring or the whole
\* of its title, artist or genre).
C7_CreatedSongIsFound ==
    \A w \in Workers : (Searched(w) /\ Len(FiltersOf(req[w])) = 1) =>
       LET f == FiltersOf(req[w])[1] IN
       \A i \in 1..Len(songs) :
          (songs[i].play_count = 0 /\ Contains(songs[i][f.column], f.value)) =>
             /\ loc[w].out.status = 200
             /\ \E j \in 1..Len(loc[w].out.songs) : loc[w].out.songs[j] = songs[i]

\* C8 (state): a search answers 200 with a JSON array; without a recognized
\* key the array is the whole table, and when no row satisfies the filters
\* it is empty.
C8_State ==
    \A w \in Workers :
       /\ Searched(w) =>
             /\ loc[w].out.status = 200 /\ loc[w].out.text = "json Vec<Song>"
             /\ FiltersOf(req[w]) = <<>> => loc[w].out.songs = songs
             /\ (\A i \in 1..Len(songs) :
                    \E k \in 1..Len(FiltersOf(req[w])) :
                       LET f == FiltersOf(req[w])[k]
                       IN  ~Like(Wrap(ToLower(f.value)), songs[i][f.column]))
                => loc[w].out.songs = <<>>
       /\ EndedOn(w, "search") => (pc[w] = "returned" /\ Len(resp[w]) = 1
                                   /\ resp[w][1].status = 200)

\* C8 (step): no step of a search changes the table or the visit counter.
C8_Step ==
    \A w \in Workers :
       (Route(req[w]) = "search" /\ pc'[w] # pc[w] /\ pc[w] \in {"accepted", "write"})
          => (songs' = songs /\ visit_count' = visit_count)

\* C8: a search without a recognized key answers 200 with every song of the
\* table, a search whose filters match no song answers 200 with an empty
\* array, never an error status, and neither changes the table or the visit
\* counter.
C8_SearchAllOrNone == []C8_State /\ [][C8_Step]_vars

\* A search for an unrecognized key has the whole, non-empty table to write.
C8_Witness ==
    \E w \in Workers :
       /\ Searched(w)
       /\ QueryOf(req[w]) = <<"foo", "=", "A">>
       /\ songs # <<>>
       /\ loc[w].out = SongsResponse(songs)

\* The play id of r is a decimal numeral.
Numeric(r) == r.id.kind \in {"digits", "bigdigits"}

\* The play id of r is a decimal numeral of a u32.
NumericU32(r) == r.id.kind = "digits"

\* No row of the table has the play id of r.
NamesNoSong(r) ==
    r.id.kind = "bigdigits" \/ \A i \in 1..Len(songs) : songs[i].id # r.id.val

\* Thread w has the answer of a play in hand or has written it; with the
\* store guard held ("write") the table is as its SELECT saw it.
PlayAnswered(w) ==
    Route(req[w]) = "play" /\ ~req[w].err /\ ~SplitPanics(req[w])
    /\ (pc[w] = "write" \/ (pc[w] \in Ended /\ taken[w] = <<>>))

\* C9 as claimed: a play with a numeric id that names no song answers 404
\* with the "Song not found" body.
C9_NumericUnknownIs404 ==
    \A w \in Workers :
       (PlayAnswered(w) /\ Numeric(req[w]) /\ NamesNoSong(req[w])) =>
          Answer(w) = NotFoundResponse

\* C9 (state): a play with a decimal id of a u32 that names no song answers
\* 404 with the "Song not found" body; with any other id that is no u32
\* (letters, nothing, a decimal number above u32::MAX) it answers 400 and has
\* acquired no guard.
C9_State ==
    \A w \in Workers : PlayAnswered(w) =>
       /\ (NumericU32(req[w]) /\ NamesNoSong(req[w])) => Answer(w) = NotFoundResponse
       /\ req[w].id.kind \in {"alpha", "empty", "bigdigits"} =>
             (Answer(w) = InvalidIdResponse /\ taken[w] = <<>>)

\* C9 (step): the steps of a play that ends in 404 or 400 change no row: none
\* is inserted and no play_count changes.
C9_Step ==
    \A w \in Workers :
       (Route(req[w]) = "play" /\ pc'[w] # pc[w] /\ pc[w] # "idle"
        /\ (req[w].id.kind # "digits"
            \/ (pc[w] = "accepted" /\ NamesNoSong(req[w]))
            \/ (pc[w] = "write" /\ loc[w].out = NotFoundResponse)))
          => songs' = songs

\* C9 (amended): 404 for a decimal u32 id that names no song, 400 without the
\* store guard for an id that is no u32, and no row changes in either case.
C9_PlayRejections == []C9_State /\ [][C9_Step]_vars

\* A play of id 2 found no row and has the 404 to write while the table
\* holds song 1; a play of a non-numeric id was answered 400.
C9_Witness ==
    \E w, v \in Workers :
       /\ pc[w] = "write" /\ Route(req[w]) = "play" /\ req[w].id.val = 2
       /\ loc[w].out = NotFoundResponse
       /\ Len(songs) = 1
       /\ pc[v] = "returned" /\ Route(req[v]) = "play" /\ req[v].id.kind = "alpha"
       /\ resp[v] = <<InvalidIdResponse>>

\* The request line of r starts with none of the four route prefixes.
NoRoutePrefix(r) ==
    /\ ~(r.method = "GET" /\ r.path = "/count")
    /\ ~(r.method = "POST" /\ r.path = "/songs/new")
    /\ ~(r.method = "GET" /\ r.path = "/songs/search?")
    /\ ~(r.method = "GET" /\ r.path = "/songs/play/")

\* Thread w has read and split a request that starts with no route prefix.
Unrouted(w) == ~req[w].err /\ ~SplitPanics(req[w]) /\ NoRoutePrefix(req[w])

\* C10 (state): such a request is answered with the welcome text, by a
\* thread that has acquired no guard.
C10_State ==
    \A w \in Workers : (pc[w] \in Ended /\ Unrouted(w)) =>
       /\ pc[w] = "returned"
       /\ resp[w] = <<WelcomeResponse>>
       /\ taken[w] = <<>>

\* C10 (step): the step that answers it changes neither the visit counter
\* nor the store nor a guard.
C10_Step ==
    \A w \in Workers :
       (pc[w] = "accepted" /\ Unrouted(w) /\ pc'[w] # pc[w]) =>
          UNCHANGED <<visit_count, songs, sqlite_sequence, last_insert_rowid,
                      visit_lock, db_lock, poisoned>>

\* C10: every request that was read and split and starts with none of the
\* four route prefixes gets the 200 welcome text from a handler that takes
\* no guard and changes neither the visit counter nor the table.
C10_DefaultWelcome == []C10_State /\ [][C10_Step]_vars

\* DELETE /songs/new was answered with the welcome text while the table
\* holds a song and the counter has counted.
C10_Witness ==
    \E w \in Workers :
       /\ pc[w] = "returned"
       /\ req[w].method = "DELETE" /\ req[w].path = "/songs/new"
       /\ resp[w] = <<WelcomeResponse>>
       /\ songs # <<>> /\ visit_count = 1

\* The read of thread w succeeded and left no "\r\n\r\n" in the buffer.
NoBlankLine(w) == pc[w] \notin {"idle", "closed"} /\ ~req[w].err /\ req[w].find = None

\* C11: a request without a blank line is still dispatched and answered:
\* its thread does not panic and ends with one response written, the welcome
\* text when the request line starts with no route prefix.
C11_NoBlankLineStillAnswered ==
    \A w \in Workers : (NoBlankLine(w) /\ pc[w] \in Ended) =>
       /\ pc[w] = "returned"
       /\ Len(resp[w]) = 1
       /\ NoRoutePrefix(req[w]) => resp[w] = <<WelcomeResponse>>

\* The thread has a POST /songs/new with the JSON content type and a
\* Content-Length that parses.
DeclaresLength(w) ==
    /\ pc[w] \notin {"idle", "closed"}
    /\ ~req[w].err /\ ~SplitPanics(req[w])
    /\ req[w].method = "POST" /\ req[w].path = "/songs/new"
    /\ req[w].ctype = "application/json"
    /\ req[w].clen.form = "ok"

\* C12: whatever length a JSON POST /songs/new declares, beyond the bytes of
\* the buffer that follow the blank line included, its thread does not panic
\* and the client gets a response.
C12_DeclaredLengthIsChecked ==
    \A w \in Workers : (DeclaresLength(w) /\ pc[w] \in Ended) =>
       /\ pc[w] = "returned"
       /\ Len(resp[w]) = 1

\* Thread w has ended and no store call of its own returned Err.
EndedUnfailed(w) == pc[w] \in Ended /\ ~req[w].err /\ loc[w].fault = ""

\* C13: whatever failed in the threads that have ended, no guard is left
\* unusable: a thread that asked for the visit-counter guard or for the
\* store guard, and had no failure of its own, got it and ended with its
\* response written.
C13_GuardsStayUsable ==
    /\ poisoned = {}
    /\ \A w \in Workers :
          (EndedUnfailed(w) /\ ~SplitPanics(req[w])
           /\ (NeedsStore(req[w]) \/ Route(req[w]) = "count")) =>
             /\ pc[w] = "returned"
             /\ Len(taken[w]) = 1
             /\ Len(resp[w]) = 1

\* A store call of the search or create handler of thread w returned Err.
StoreFailed(w) ==
    /\ Route(req[w]) \in {"search", "new"}
    /\ loc[w].fault \in {"prepare", "query", "insert"}

\* C14: a thread whose search failed at prepare or at query_map, or whose
\* INSERT failed, ends by return with a 500 response written, and the
\* failed INSERT has added no row.
C14_StoreFailureIs500 ==
    \A w \in Workers : (StoreFailed(w) /\ pc[w] \in Ended) =>
       /\ pc[w] = "returned"
       /\ Len(resp[w]) = 1 /\ resp[w][1].status = 500
       /\ row_of[w] = 0

\* C15: the numbers reported by the GET /count responses written so far
\* are exactly 1, 2, ..., N for the N requests answered, each reported by one
\* response, and a response about to be written reports the counter as its
\* own increment left it.
C15_CountsReportedOnce ==
    /\ Len(count_reports) = served_counts
    /\ {count_reports[i] : i \in 1..Len(count_reports)} = 1..Len(count_reports)
    /\ \A i, j \in 1..Len(count_reports) :
          count_reports[i] = count_reports[j] => i = j
    /\ \A w \in Workers :
          (pc[w] = "write" /\ Route(req[w]) = "count") =>
             /\ loc[w].out.status = 200 /\ loc[w].out.n = visit_count
             /\ visit_count = Len(count_reports) + 1

\* Every connection of the run was a GET /count and all were answered,
\* the last two by threads that were alive together.
C15_Witness ==
    /\ Len(count_reports) = NWorkers
    /\ \E w, v \in Workers :
          /\ w # v
          /\ pc[w] = "returned" /\ pc[v] = "returned"
          /\ Route(req[w]) = "count" /\ Route(req[v]) = "count"
          /\ resp[w][1].n = NWorkers - 1
          /\ resp[v][1].n = NWorkers

\* The filters of request r as a set: one per occurrence of a recognized
\* key that differs in key or value, whatever the order of the pairs.
FilterSet(r) == {FiltersOf(r)[k] : k \in 1..Len(FiltersOf(r))}

\* The contains-filter of the store for filter f on a row: the column
\* LIKE the lower-cased value between two "%".
PassesFilter(row, f) == Like(<<"%">> \o ToLower(f.value) \o <<"%">>, row[f.column])

\* C16: the songs of a search response are exactly the songs of the table
\* that pass the filter of every occurrence of a recognized key in the query
\* string; pairs of other keys add no filter, a repeated key adds a filter
\* per occurrence, and the order of the pairs plays no part.
C16_SearchIsConjunction ==
    \A w \in Workers : Searched(w) =>
       {loc[w].out.songs[j] : j \in 1..Len(loc[w].out.songs)}
          = {songs[i] : i \in {k \in 1..Len(songs) :
                                 \A f \in FilterSet(req[w]) : PassesFilter(songs[k], f)}}

\* A search for title=z&title=A over a table with a song whose title
\* contains "A" and no "z" has the empty array to write.
C16_Witness ==
    \E w \in Workers :
       /\ Searched(w)
       /\ QueryOf(req[w]) = <<"title", "=", "z", "&", "title", "=", "A">>
       /\ Cardinality(FilterSet(req[w])) = 2
       /\ songs # <<>>
       /\ loc[w].out = SongsResponse(<<>>)

\* The recognized keys of request r, in the order of their pairs.
KeysOf(r) == [k \in 1..Len(FiltersOf(r)) |-> FiltersOf(r)[k].column]

\* The values of those pairs, in the same order.
ValuesOf(r) == [k \in 1..Len(FiltersOf(r)) |-> FiltersOf(r)[k].value]

\* Thread w has sent its search query to the store.
Queried(w) ==
    Route(req[w]) = "search" /\ pc[w] \in {"write", "returned"} /\ loc[w].query # <<>>

\* The words of a query text: the SELECT and, per condition, " AND ", a
\* column and " LIKE ?".
QueryWords ==
    {"SELECT id, title, artist, genre, play_count FROM songs WHERE 1=1",
     " AND ", " LIKE ?"} \cup Columns

\* C17: two searches with the same sequence of recognized keys send the
\* same query text to the store, whatever their values (two searches whose
\* texts differ differ in their keys); the values travel in the bound
\* arguments only, one per "?" of the text, and the text is made of the
\* fixed words and the column names and of nothing else.
C17_QueryTextFromKeysOnly ==
    \A w \in Workers : Queried(w) =>
       /\ \A v \in Workers :
             (Queried(v) /\ loc[v].query # loc[w].query) =>
                KeysOf(req[v]) # KeysOf(req[w])
       /\ \A i \in 1..Len(loc[w].query) : loc[w].query[i] \in QueryWords
       /\ Len(loc[w].args)
             = Cardinality({i \in 1..Len(loc[w].query) : loc[w].query[i] = " LIKE ?"})

\* Two searches with the keys title, title and different values were sent
\* with the same text and different arguments.
C17_Witness ==
    \E w, v \in Workers :
       /\ Queried(w) /\ Queried(v)
       /\ KeysOf(req[w]) = <<"title", "title">>
       /\ KeysOf(req[v]) = KeysOf(req[w])
       /\ ValuesOf(req[v]) # ValuesOf(req[w])
       /\ loc[v].query = loc[w].query
       /\ loc[v].args # loc[w].args

\* Thread w takes the step that sends the UPDATE of a play of song id.
PlaysNow(w, id) ==
    pc[w] = "selected" /\ pc'[w] = "write" /\ loc[w].song.id = id
    /\ loc'[w].out.status = 200

\* C18 (state): every song has a positive identity of its own and a
\* play_count that is not negative.
C18_State ==
    \A i \in 1..Len(songs) :
       /\ songs[i].id > 0 /\ songs[i].play_count >= 0
       /\ \A j \in 1..Len(songs) : songs[i].id = songs[j].id => i = j

\* C18 (step): a step keeps every song of the table, with its identity,
\* title, artist and genre; a play_count stays or grows by one, and grows
\* only in the UPDATE step of a play of that identity; a song that enters
\* the table has play_count 0.
C18_Step ==
    /\ Len(songs') >= Len(songs)
    /\ \A i \in 1..Len(songs) :
          /\ songs'[i].id = songs[i].id
          /\ songs'[i].title = songs[i].title
          /\ songs'[i].artist = songs[i].artist
          /\ songs'[i].genre = songs[i].genre
          /\ songs'[i].play_count \in {songs[i].play_count, songs[i].play_count + 1}
          /\ songs'[i].play_count # songs[i].play_count =>
                \E w \in Workers : PlaysNow(w, songs[i].id)
    /\ \A i \in (Len(songs) + 1)..Len(songs') : songs'[i].play_count = 0

\* C18: after startup no request removes a song or changes its identity,
\* title, artist or genre; play_count starts at 0, never decreases and
\* changes only by +1 in a successful play of that song.
C18_SongsImmutable == []C18_State /\ [][C18_Step]_vars

\* Two songs exist, the first was played once and the second never.
C18_Witness ==
    /\ Len(songs) = 2
    /\ songs[1].id = 1 /\ songs[1].play_count = 1
    /\ songs[2].id = 2 /\ songs[2].play_count = 0
    /\ served_plays[1] = 1

\* The identities of the songs whose create has acquired the store guard.
CreatedIn(log) == {log[k].id : k \in {n \in 1..Len(log) : log[n].op = "new"}}

\* The plays of song id that have acquired the store guard.
PlaysIn(log, id) ==
    Cardinality({k \in 1..Len(log) : log[k].op = "play" /\ log[k].id = id})

\* The song is as the creates and plays of the log leave it.
AsLogged(song) ==
    song.id \in CreatedIn(store_log) /\ song.play_count = PlaysIn(store_log, song.id)

\* No thread is between the SELECT and the UPDATE of a play.
NoPlayUnderWay == \A w \in Workers : pc[w] # "selected"

\* C19: store operations happen one at a time, in the order the threads got
\* the store guard.  The table is what the creates and plays that got the
\* guard so far make of it; the songs of a search response are the songs,
\* among those that pass its filters, whose create got the guard before the
\* search, each with the play_count of the plays that got it before; the
\* song of a play response counts the plays of it up to and including this
\* one.
C19_SerializedInGuardOrder ==
    /\ Cardinality({w \in Workers : InStore(w)}) <= 1
    /\ NoPlayUnderWay =>
          /\ {songs[i].id : i \in 1..Len(songs)} = CreatedIn(store_log)
          /\ \A i \in 1..Len(songs) : AsLogged(songs[i])
    /\ \A w \in Workers :
          /\ Searched(w) =>
                /\ \A j \in 1..Len(loc[w].out.songs) : AsLogged(loc[w].out.songs[j])
                /\ \A id \in CreatedIn(store_log) :
                      \E i \in 1..Len(songs) :
                         /\ songs[i].id = id
                         /\ (\A f \in FilterSet(req[w]) : PassesFilter(songs[i], f))
                               => \E j \in 1..Len(loc[w].out.songs) :
                                     loc[w].out.songs[j] = songs[i]
          /\ (pc[w] = "write" /\ Route(req[w]) = "play" /\ loc[w].out.status = 200) =>
                /\ AsLogged(loc[w].out.songs[1])
                /\ loc[w].out.songs[1].play_count >= 1

\* A create, then a play of song 1, then a search got the guard in this
\* order, and the search has song 1 with play_count 1 to write.
C19_Witness ==
    \E w \in Workers :
       /\ Searched(w)
       /\ store_log = <<[op |-> "new", id |-> 1], [op |-> "play", id |-> 1]>>
       /\ Len(loc[w].out.songs) = 1
       /\ loc[w].out.songs[1].id = 1
       /\ loc[w].out.songs[1].play_count = 1

\* Thread w has its response to write and has not returned: it is in
\* write_all for as long as its client does not take the bytes.
InWrite(w) == pc[w] = "write"

\* C20: a thread that is writing the response of a count, create, search or
\* play request holds neither guard, so a client that stalls the write
\* keeps no other thread from a guard.
C20_WriterHoldsNoGuard ==
    \A w \in Workers :
       (InWrite(w) /\ Route(req[w]) \in {"count", "new", "search", "play"}) =>
          (visit_lock # w /\ db_lock # w)

====
